---- MODULE Spec2Model ----
(***************************************************************************)
(* A model of AssistantMessageQueue (src/src/lib/assistant-message-queue.ts)*)
(* and of the lock helpers of src/src/utils/redis-helper.ts.               *)
(*                                                                         *)
(* Every await of the source is one atomic step: the calls of one handler  *)
(* interleave with the calls of producers and of the other handlers.       *)
(* The queue (BullMQ), Redis and the conversational service are the        *)
(* environment: a job with an id that already exists is not added again, a *)
(* job whose handler returns is completed and, with removeOnComplete, is   *)
(* removed from the queue; a job whose handler throws is delayed again     *)
(* until its attempts are exhausted and then stays in the queue as failed. *)
(***************************************************************************)
EXTENDS Integers, Sequences, FiniteSets

\* ------------------------------------------------------------ bounds
\* Messages submitted in one behaviour.
MaxMsgs == 3
\* External failures and lock expiries injected in one behaviour.
MaxFaults == 1
\* jobs of one batch, in the specification of the run's instructions
MaxBatch == 3
\* Seconds a slow external call (retrieve, tool handler, submit) takes.
SlowSecs == 20

\* ------------------------------------------------------------ constants
\* options.maxAttempts (constructor default).
maxAttempts == 3

\* Times are counted in 1/64 ms: delay * 1.5 stays exact up to the cap.
Unit == 64
\* let delay = 1000
initialDelay == 1000 * Unit
\* const maxDelay = 15000
maxDelay == 15000 * Unit
\* const maxWaitTime = 300000
maxWaitTime == 300000 * Unit

\* lockDuration: 300000
lockDuration == 300000 * Unit
\* EX: Math.floor(lockDuration / 1000), the seconds the lock key lives
lockSeconds == lockDuration \div (1000 * Unit)

\* job.data.instructions: instructions?: string
Undefined == "<undefined>"
Instructions == {Undefined, "", "a", "b"}
\* options.defaultInstructions: the constructor's default, or the caller's
Defaults == {"Reply to all messages logically.", "d", ""}
\* What getJobsByThreadId may return for a thread with jobs: job.data of up to
\* MaxBatch jobs with different timestamps, in the order of sMembers.
JobData == [timestamp : 1..MaxBatch, instructions : Instructions]
Batches == {js \in UNION {[1..n -> JobData] : n \in 1..MaxBatch} :
               \A i \in 1..Len(js) : \A k \in 1..Len(js) :
                   i # k => js[i].timestamp # js[k].timestamp}

\* checkRun.status
Statuses == {"queued", "in_progress", "requires_action", "completed", "failed",
             "cancelled", "expired"}
\* Ids of the tool calls a run may ask for.
ToolCalls == {1, 2}
\* What an external call takes: no time to speak of, or SlowSecs.
CallTimes == {0, SlowSecs * 1000 * Unit}

Threads == {1, 2}
\* Worker slots (options.concurrency, over all worker processes).
Workers == {1, 2}

\* Callers of the lock helpers, and the lock values they present.
Clients == {1, 2}
Tokens == {1, 2}
\* The expiryInSeconds they ask for.
Expiries == {1, 2}

\* Date.now() of a submission: submissions in the same millisecond share it.
Stamps == 1..(MaxMsgs + 1)
\* jobId = `thread_${threadId}_${timestamp}`
JobIds == Threads \X Stamps
NoJob == <<0, 0>>
threadOf(j) == j[1]
stampOf(j) == j[2]

VARIABLES
    queue,      \* BullMQ: job id -> [st, msg, att]; st = "none": no such job
    wait,       \* BullMQ: the waiting jobs, in the order they are dispatched
    index,      \* Redis set threadJobs:<threadId>: thread -> set of job ids
    lock,       \* Redis key lock_thread_<threadId>: 0 (absent) or the value set
    msgs,       \* the submissions so far: sequence of [t, ts]
    pend,       \* submissions between queue.add and sAdd
    posted,     \* external thread: thread -> sequence of combined messages
    runs,       \* external thread: thread -> number of runs started
    pc,         \* worker slot -> position in the processor callback
    job,        \* worker slot -> the job it was dispatched
    ids,        \* worker slot -> job ids read by sMembers
    snap,       \* worker slot -> jobs fetched (relatedJobs / jobs)
    out,        \* worker slot -> "ok" or "err": how processMessages ends
    faults,     \* external failures and expiries so far
    late,       \* <<k, n>>: k is the first submission made while a run of its
                \* thread was in flight, n the number of combined messages
                \* posted to the thread by then (<<0, 0>>: none yet)
    run,        \* slot -> run.id of the run its cycle started: the number of the
                \* run in its thread (0: none)
    result,     \* slot -> the ProcessingResult its processMessages returns
                \* (NoResult: none)
    prom,       \* thread -> the job promoted last, until the first handler
                \* dispatched with it ends or acquires the lock (NoJob: none)
    phase,      \* thread -> "open": no job dispatched yet; "closed": dispatched,
                \* and every submission came before; "mixed": a later submission
    cpc,        \* lock helpers: client -> "idle" or "del" (inside releaseLock)
    cop,        \* lock helpers: client -> the helper it called last
    cval,       \* lock helpers: client -> lockValue of its last call
    cread,      \* lock helpers: client -> currentLock read by its last releaseLock
    cres,       \* lock helpers: client -> what its last call returned
    cdel,       \* lock helpers: client -> its last releaseLock issued del(lockKey)
    ttl,        \* lock helpers: seconds the key of acquireLock has left (0: no key)
    handleRequiresAction,   \* options.handleRequiresAction is configured
    rpc,        \* waitForRunCompletion: position in the polling loop
    status,     \* waitForRunCompletion: let status
    delay,      \* waitForRunCompletion: let delay
    now,        \* waitForRunCompletion: Date.now() - startTime
    polled,     \* waitForRunCompletion: checkRun.status of the last retrieve
    toolCalls,  \* waitForRunCompletion: tool calls of the last retrieve
    given,      \* sequence of the toolCalls arguments of the handler calls
                \* since the last retrieve
    outputs,    \* toolOutputs the handler returned since the last retrieve
    submitted,  \* sequence of the tool_outputs submitted since the last retrieve
    slept,      \* the delay of the previous sleep (0: none yet)
    handled,    \* a requires_action was handled during this call
    err,        \* why waitForRunCompletion threw
    jobs,       \* processMessages: the jobs array (data.timestamp, data.instructions)
    defaultInstructions,    \* options.defaultInstructions
    instructions,           \* processMessages: const instructions
    runInstructions,        \* instructions of the params of runs.create
    bpc,        \* position between the sort of the jobs and runs.create
    worker,     \* this.worker: 0 (null) or the Worker it refers to
    alive,      \* the Workers created and not closed
    made,       \* the number of Workers created so far
    kpc,        \* close(): caller -> position in close
    ktarget,    \* close(): caller -> the Worker whose close() it awaits
    ret,        \* what the last startWorker returned (0: no call yet)
    connecting, \* a connect() of the Redis client is under way
    isOpen,     \* redisClient.isOpen
    via,        \* how the queue was created: "constructor" or "router"
    optHandler, \* the options given hold a handleRequiresAction
    requiredAction, \* createFunctionCallHandler: event.requiredAction
    toolOutputs,    \* createFunctionCallHandler: output of each tool call so far
    fsubmits,   \* createFunctionCallHandler: the submitToolOutputs calls made
    fpc         \* createFunctionCallHandler: position in the handler

\* The state of the clients of the lock helpers (redis-helper.ts).
lvars == <<cpc, cop, cval, cread, cres, cdel, ttl>>

\* The state of one call of waitForRunCompletion.
rvars == <<handleRequiresAction, rpc, status, delay, now, polled, toolCalls, given,
           outputs, submitted, slept, handled, err>>

\* The jobs of one cycle and the instructions of its run.
bvars == <<jobs, defaultInstructions, instructions, runInstructions, bpc>>

\* The worker of the instance and the calls of close in flight.
svars == <<worker, alive, made, kpc, ktarget, ret, connecting, isOpen>>

\* The express adapter: the options of the router and one call of the handler
\* built by createFunctionCallHandler.
avars == <<via, optHandler, requiredAction, toolOutputs, fsubmits, fpc>>

\* The state of the queue, the index and the processor callbacks, but the lock.
qvars == <<queue, wait, index, msgs, pend, posted, runs, pc, job, ids, snap,
           out, faults, late, phase, prom, run, result>>

vars == <<queue, wait, index, lock, msgs, pend, posted, runs, pc, job, ids, snap,
          out, faults, late, phase, prom, run, result, lvars, rvars, bvars,
          worker, alive, made, kpc, ktarget, ret, connecting, isOpen,
          via, optHandler, requiredAction, toolOutputs, fsubmits, fpc>>

wvars == <<pc, job, ids, snap, out>>

\* The run a cycle started and the result it returns.
cvars == <<run, result>>

\* No ProcessingResult: the callback has returned nothing (yet).
NoResult == [threadId |-> 0, messagesProcessed |-> 0, processedJobIds |-> <<>>,
             runId |-> 0, status |-> "none"]

NoJobRec == [st |-> "none", msg |-> 0, att |-> 0]

\* ------------------------------------------------------------ helpers
MaxOf(S) == CHOOSE x \in S : \A y \in S : y <= x
MinOf(S) == CHOOSE x \in S : \A y \in S : x <= y

exists(j) == queue[j].st # "none"

\* jobs.sort((a, b) => a.data.timestamp - b.data.timestamp): ids of one thread
\* have distinct timestamps, so the order is total.
RECURSIVE sortByTimestamp(_)
sortByTimestamp(S) ==
    IF S = {} THEN <<>>
    ELSE LET o == CHOOSE j \in S : \A k \in S : stampOf(j) <= stampOf(k)
         IN <<o>> \o sortByTimestamp(S \ {o})

\* jobs.map(job => job.data.message).join("\n"): the messages in sorted order.
\* A job's data never changes, and an id is never reused after removal.
msgOfJob(j) == CHOOSE k \in 1..Len(msgs) :
                 /\ msgs[k].t = threadOf(j) /\ msgs[k].ts = stampOf(j)
                 /\ \A k2 \in 1..Len(msgs) :
                      (msgs[k2].t = threadOf(j) /\ msgs[k2].ts = stampOf(j)) => k <= k2

\* A join that takes the messages newest first.
combinedMessage_newestFirst(S) ==
    LET s == sortByTimestamp(S) IN [i \in 1..Len(s) |-> msgOfJob(s[Len(s) + 1 - i])]

combinedMessage(S) ==
    LET s == sortByTimestamp(S) IN [i \in 1..Len(s) |-> msgOfJob(s[i])]

\* Math.max(...jobs.map(job => job.data.timestamp))
maxTimestamp(S) == MaxOf({stampOf(j) : j \in S})

\* relatedJobs[0] after the sort
oldest(S) == sortByTimestamp(S)[1]

lastStamp == IF msgs = <<>> THEN 0 ELSE msgs[Len(msgs)].ts

\* A cycle of thread t is in flight on w: between lock acquisition and the
\* end of the finally block.
Locked == {"p_post", "p_wait", "p_remove", "p_srem", "p_newer",
           "p_nfetch", "p_promote", "p_get", "p_del"}
inCycle(w, t) == pc[w] \in Locked /\ threadOf(job[w]) = t

\* A run of thread t is being driven, by a cycle whose high-water mark is
\* below ts.
runInFlight(t, ts) ==
    \E w \in Workers : /\ pc[w] = "p_wait" /\ threadOf(job[w]) = t
                       /\ maxTimestamp(snap[w]) < ts

jobIdOf(k) == <<msgs[k].t, msgs[k].ts>>

\* ------------------------------------------------------------ Init
\* waitForRunCompletion is entered: status = "in_progress", delay = 1000,
\* startTime = Date.now().
InitWait ==
    /\ rpc = "loop"
    /\ status = "in_progress"
    /\ delay = initialDelay
    /\ now = 0
    /\ polled = "none"
    /\ toolCalls = {}
    /\ given = <<>>
    /\ outputs = {}
    /\ submitted = <<>>
    /\ slept = 0
    /\ handled = FALSE
    /\ err = "none"

\* Calls of close that may be in flight at once.
\* Workers an instance creates at most.
MaxWorkers == 3

Closers == {1, 2}

\* After construction: no worker (private worker ... = null), the Redis
\* client created but not connected.
NoWorker ==
    /\ worker = 0
    /\ alive = {}
    /\ made = 0
    /\ kpc = [c \in Closers |-> "idle"]
    /\ ktarget = [c \in Closers |-> 0]
    /\ ret = 0
    /\ connecting = FALSE
    /\ isOpen = FALSE

\* No event: the handler built by createFunctionCallHandler is not running.
NoAction == [type |-> "none", tool_calls |-> <<>>]

NoCalls ==
    /\ requiredAction = NoAction
    /\ toolOutputs = <<>>
    /\ fsubmits = <<>>
    /\ fpc = "idle"

\* The queue was created by new AssistantMessageQueue(options): the options
\* given are the options configured ({...defaults, ...options}).
NoAdapter ==
    /\ via = "constructor"
    /\ optHandler = handleRequiresAction
    /\ NoCalls

InitRest ==
    /\ queue = [j \in JobIds |-> NoJobRec]
    /\ wait = <<>>
    /\ index = [t \in Threads |-> {}]
    /\ lock = [t \in Threads |-> 0]
    /\ msgs = <<>>
    /\ pend = {}
    /\ posted = [t \in Threads |-> <<>>]
    /\ runs = [t \in Threads |-> 0]
    /\ pc = [w \in Workers |-> "idle"]
    /\ job = [w \in Workers |-> NoJob]
    /\ ids = [w \in Workers |-> {}]
    /\ snap = [w \in Workers |-> {}]
    /\ out = [w \in Workers |-> "ok"]
    /\ faults = 0
    /\ late = <<0, 0>>
    /\ phase = [t \in Threads |-> "open"]
    /\ prom = [t \in Threads |-> NoJob]
    /\ run = [w \in Workers |-> 0]
    /\ result = [w \in Workers |-> NoResult]
    /\ cpc = [c \in Clients |-> "idle"]
    /\ cop = [c \in Clients |-> "none"]
    /\ cval = [c \in Clients |-> 0]
    /\ cread = [c \in Clients |-> 0]
    /\ cres = [c \in Clients |-> "none"]
    /\ cdel = [c \in Clients |-> FALSE]
    /\ ttl = 0
    /\ InitWait
    /\ NoWorker

\* No batch is being turned into a run.
NoBatch ==
    /\ jobs = <<>>
    /\ defaultInstructions = "Reply to all messages logically."
    /\ instructions = Undefined
    /\ runInstructions = Undefined
    /\ bpc = "idle"

InitAll == InitRest /\ NoBatch

\* The constructor's default: handleRequiresAction: null.
Init == InitAll /\ handleRequiresAction = FALSE /\ NoAdapter

\* ------------------------------------------------------------ producers
\* addMessageToThread, first await: timestamp = Date.now(), queue.add(jobId, ...).
\* A second add of an existing jobId leaves the existing job as it is.
QueueAdd(t, ts) ==
    /\ Len(msgs) < MaxMsgs
    /\ ts \in {lastStamp, lastStamp + 1} /\ ts >= 1
    \* the same millisecond as the last submission: nothing submitted in it
    \* has been waiting for its delay yet
    /\ ts = lastStamp =>
          \A k \in 1..Len(msgs) : msgs[k].ts = ts =>
             /\ queue[<<msgs[k].t, ts>>].st = "delayed"
             /\ queue[<<msgs[k].t, ts>>].att = 0
    /\ LET j == <<t, ts>>
           k == Len(msgs) + 1
       IN /\ queue' = IF exists(j) THEN queue
                      ELSE [queue EXCEPT ![j] = [st |-> "delayed", msg |-> k, att |-> 0]]
          /\ msgs' = Append(msgs, [t |-> t, ts |-> ts])
          /\ pend' = pend \cup {k}
          /\ late' = IF late = <<0, 0>> /\ runInFlight(t, ts)
                     THEN <<k, Len(posted[t])>> ELSE late
          /\ phase' = [phase EXCEPT ![t] = IF @ = "open" THEN @ ELSE "mixed"]
    /\ UNCHANGED <<lvars, rvars, bvars, svars, avars, cvars, prom, wait, index, lock, posted, runs, wvars, faults>>

\* addMessageToThread, second await: sAdd(threadJobs:<threadId>, jobId); return jobId.
SAdd(k) ==
    /\ k \in pend
    /\ pend' = pend \ {k}
    /\ index' = [index EXCEPT ![msgs[k].t] = @ \cup {<<msgs[k].t, msgs[k].ts>>}]
    /\ phase' = [phase EXCEPT ![msgs[k].t] = IF @ = "open" THEN @ ELSE "mixed"]
    /\ UNCHANGED <<lvars, rvars, bvars, svars, avars, cvars, prom, wait, queue, lock, msgs, posted, runs, wvars, faults, late>>

\* ------------------------------------------------------------ the queue
\* The delay of a job elapses. Fresh jobs have the same delay (messageDelay,
\* 10 s), so they become dispatchable in the order of their timestamps, and
\* not before the submission's second call (sAdd, one round trip later) is
\* done; a job delayed again (moveToDelayed, backoff) has a delay of its own.
DelayElapsed(j) ==
    /\ queue[j].st = "delayed"
    /\ \A k \in pend : jobIdOf(k) # j
    /\ \A j2 \in JobIds : queue[j2].st = "delayed" => stampOf(j) <= stampOf(j2)
    /\ queue' = [queue EXCEPT ![j].st = "waiting"]
    /\ wait' = Append(wait, j)
    /\ UNCHANGED <<lvars, rvars, bvars, svars, avars, cvars, prom, index, lock, msgs, pend, posted, runs, wvars, faults, late,
                   phase>>

BackoffElapsed(j) ==
    /\ queue[j].st = "redelayed"
    /\ queue' = [queue EXCEPT ![j].st = "waiting"]
    /\ wait' = Append(wait, j)
    /\ UNCHANGED <<lvars, rvars, bvars, svars, avars, cvars, prom, index, lock, msgs, pend, posted, runs, wvars, faults, late,
                   phase>>

\* The worker takes a waiting job and invokes the processor callback with it.
Dispatch(w, j) ==
    /\ pc[w] = "idle"
    /\ \A w2 \in Workers : pc[w2] = "idle" => w <= w2
    /\ wait # <<>> /\ j = Head(wait)
    /\ wait' = Tail(wait)
    /\ queue' = [queue EXCEPT ![j].st = "active"]
    /\ pc' = [pc EXCEPT ![w] = "h_index"]
    /\ job' = [job EXCEPT ![w] = j]
    /\ phase' = [phase EXCEPT ![threadOf(j)] = IF @ = "open" THEN "closed" ELSE @]
    /\ UNCHANGED <<lvars, rvars, bvars, svars, avars, cvars, prom, index, lock, msgs, pend, posted, runs, ids, snap, out,
                   faults, late>>

\* The callback returned: the job is completed and (removeOnComplete) removed,
\* unless it was moved to delayed or removed in the meantime.
completeJob(j) ==
    IF queue[j].st = "active" THEN [queue EXCEPT ![j] = NoJobRec] ELSE queue

\* The callback threw: the job is delayed again (backoff) while attempts remain,
\* and then stays in the queue as failed.
failJob(j) ==
    IF queue[j].st = "active"
    THEN IF queue[j].att + 1 < maxAttempts
         THEN [queue EXCEPT ![j].st = "redelayed", ![j].att = @ + 1]
         ELSE [queue EXCEPT ![j].st = "failed", ![j].att = @ + 1]
    ELSE queue

\* The handler dispatched with job j ends or acquires the lock: j is no longer
\* the job promoted last.
notPromoted(j) == [prom EXCEPT ![threadOf(j)] = IF @ = j THEN NoJob ELSE @]

resetWorker(w) ==
    /\ prom' = notPromoted(job[w])
    /\ pc' = [pc EXCEPT ![w] = "idle"]
    /\ job' = [job EXCEPT ![w] = NoJob]
    /\ ids' = [ids EXCEPT ![w] = {}]
    /\ snap' = [snap EXCEPT ![w] = {}]
    /\ out' = [out EXCEPT ![w] = "ok"]
    /\ run' = [run EXCEPT ![w] = 0]
    /\ result' = [result EXCEPT ![w] = NoResult]

Returned(w) ==
    /\ pc[w] = "ret"
    /\ queue' = completeJob(job[w])
    /\ resetWorker(w)
    /\ UNCHANGED <<lvars, rvars, bvars, svars, avars, wait, index, lock, msgs, pend, posted, runs, faults, late, phase>>

Threw(w) ==
    /\ pc[w] = "thr"
    /\ queue' = failJob(job[w])
    /\ resetWorker(w)
    /\ UNCHANGED <<lvars, rvars, bvars, svars, avars, wait, index, lock, msgs, pend, posted, runs, faults, late, phase>>

\* ------------------------------------------------------------ getJobsByThreadId
\* sMembers(threadJobs:<threadId>)
sMembers(w, next) ==
    /\ ids' = [ids EXCEPT ![w] = index[threadOf(job[w])]]
    /\ pc' = [pc EXCEPT ![w] = next]

\* A fetch that keeps every id of the index, removed jobs included.
getJobs_noFilter(S) == S

\* batchIds.map(id => queue.getJob(id)) ... filter(Boolean)
getJobs(S) == {j \in S : exists(j)}

\* ------------------------------------------------------------ processor callback
H_Index(w) ==
    /\ pc[w] = "h_index"
    /\ sMembers(w, "h_fetch")
    /\ UNCHANGED <<lvars, rvars, bvars, svars, avars, cvars, prom, wait, queue, index, lock, msgs, pend, posted, runs, job, snap, out,
                   faults, late, phase>>

\* relatedJobs = the jobs fetched; if (relatedJobs.length === 0) return
H_Fetch(w) ==
    /\ pc[w] = "h_fetch"
    /\ snap' = [snap EXCEPT ![w] = getJobs(ids[w])]
    /\ ids' = [ids EXCEPT ![w] = {}]
    /\ pc' = [pc EXCEPT ![w] = IF getJobs(ids[w]) = {} THEN "ret" ELSE "h_exists"]
    /\ UNCHANGED <<lvars, rvars, bvars, svars, avars, cvars, prom, wait, queue, index, lock, msgs, pend, posted, runs, job, out,
                   faults, late, phase>>

\* A handler that looks for the oldest job first and for the lock second.
afterExists_oldestFirst(w) ==
    IF oldest(snap[w]) # job[w] THEN "ret"
    ELSE IF lock[threadOf(job[w])] # 0 THEN "h_delay"
    ELSE "p_lock"

\* A handler that lets every job of an unlocked thread start a cycle.
afterExists_everyJob(w) ==
    IF lock[threadOf(job[w])] # 0 THEN "h_delay" ELSE "p_lock"

\* A lock check that takes the lock of any thread for the job's own.
afterExists_anyLock(w) ==
    IF \E t \in Threads : lock[t] # 0 THEN "h_delay"
    ELSE IF oldest(snap[w]) # job[w] THEN "ret"
    ELSE "p_lock"

\* isLocked = exists(lockKey); locked: moveToDelayed; not the oldest: return;
\* else processMessages(threadId, relatedJobs)
afterExists(w) ==
    IF lock[threadOf(job[w])] # 0 THEN "h_delay"
    ELSE IF oldest(snap[w]) # job[w] THEN "ret"
    ELSE "p_lock"

H_Exists(w) ==
    /\ pc[w] = "h_exists"
    /\ pc' = [pc EXCEPT ![w] = afterExists(w)]
    /\ UNCHANGED <<lvars, rvars, bvars, svars, avars, cvars, prom, wait, queue, index, lock, msgs, pend, posted, runs, job, ids, snap,
                   out, faults, late, phase>>

\* job.moveToDelayed(Date.now() + 5000); return. The job is no longer active,
\* so the worker has nothing to complete.
H_MoveToDelayed(w) ==
    /\ pc[w] = "h_delay"
    /\ queue' = IF exists(job[w]) THEN [queue EXCEPT ![job[w]].st = "redelayed"] ELSE queue
    /\ resetWorker(w)
    /\ UNCHANGED <<lvars, rvars, bvars, svars, avars, wait, index, lock, msgs, pend, posted, runs, faults, late, phase>>

\* ------------------------------------------------------------ processMessages
\* An acquisition without NX: the set overwrites the key and never fails.
P_Lock_overwrite(w) ==
    /\ pc[w] = "p_lock"
    /\ lock' = [lock EXCEPT ![threadOf(job[w])] = w]
    /\ pc' = [pc EXCEPT ![w] = "p_post"]
    /\ prom' = notPromoted(job[w])
    /\ UNCHANGED <<lvars, rvars, bvars, svars, avars, cvars, wait, queue, index, msgs, pend, posted, runs, job, ids, snap, out,
                   faults, late, phase>>

\* redisClient.set(lockKey, lockValue, {NX, EX}); if (!lock) throw (before the try).
\* lockValue is Date.now() of the acquisition: no two cycles that can meet at
\* one key carry the same value, so the value is modelled by the slot that set it.
P_Lock(w) ==
    /\ pc[w] = "p_lock"
    /\ LET t == threadOf(job[w])
       IN IF lock[t] = 0
          THEN /\ lock' = [lock EXCEPT ![t] = w]
               /\ pc' = [pc EXCEPT ![w] = "p_post"]
          ELSE /\ lock' = lock
               /\ pc' = [pc EXCEPT ![w] = "thr"]
    /\ prom' = notPromoted(job[w])
    /\ UNCHANGED <<lvars, rvars, bvars, svars, avars, cvars, wait, queue, index, msgs, pend, posted, runs, job, ids, snap, out,
                   faults, late, phase>>

\* An external call of the try block throws: control goes to the finally block.
externalFailure(w) ==
    /\ faults < MaxFaults
    /\ faults' = faults + 1
    /\ out' = [out EXCEPT ![w] = "err"]
    /\ pc' = [pc EXCEPT ![w] = "p_get"]

\* A cycle whose failure before the post also takes its batch out of the index.
P_PostRun_cleanup(w) ==
    /\ pc[w] = "p_post"
    /\ externalFailure(w)
    /\ index' = [index EXCEPT ![threadOf(job[w])] = @ \ snap[w]]
    /\ UNCHANGED <<lvars, rvars, bvars, svars, avars, cvars, prom, wait, queue, lock, msgs, pend, posted, runs, job, ids,
                   snap, late, phase>>

\* createMessage(threadId, combinedMessage); createRun(threadId, {instructions}).
\* Neither call touches the queue, the index or the lock, so the two are one
\* step with three outcomes: the first throws, the second throws, both succeed.
P_PostRun(w) ==
    /\ pc[w] = "p_post"
    /\ LET t == threadOf(job[w])
           sent == [posted EXCEPT ![t] = Append(@, combinedMessage(snap[w]))]
       IN \/ /\ externalFailure(w)
             /\ UNCHANGED <<posted, runs, run>>
          \/ /\ externalFailure(w)
             /\ posted' = sent
             /\ UNCHANGED <<runs, run>>
          \/ /\ posted' = sent
             /\ runs' = [runs EXCEPT ![t] = @ + 1]
             /\ run' = [run EXCEPT ![w] = runs[t] + 1]
             /\ pc' = [pc EXCEPT ![w] = "p_wait"]
             /\ UNCHANGED <<out, faults>>
    /\ UNCHANGED <<lvars, rvars, bvars, svars, avars, result, prom, wait, queue, index, lock, msgs, pend, job, ids, snap, late,
                   phase>>

\* waitForRunCompletion(threadId, run.id): returns "completed" or throws.
P_Wait(w) ==
    /\ pc[w] = "p_wait"
    /\ \/ /\ pc' = [pc EXCEPT ![w] = "p_remove"]
          /\ UNCHANGED <<out, faults>>
       \/ externalFailure(w)
    /\ UNCHANGED <<lvars, rvars, bvars, svars, avars, cvars, prom, wait, queue, index, lock, msgs, pend, posted, runs, job, ids, snap, late,
                   phase>>

\* Promise.all(jobs.map(job => job.remove())), or the call throws
P_Remove(w) ==
    /\ pc[w] = "p_remove"
    /\ \/ /\ queue' = [j \in JobIds |-> IF j \in snap[w] THEN NoJobRec ELSE queue[j]]
          /\ wait' = SelectSeq(wait, LAMBDA j : j \notin snap[w])
          /\ pc' = [pc EXCEPT ![w] = "p_srem"]
          /\ UNCHANGED <<out, faults>>
       \/ /\ externalFailure(w)
          /\ UNCHANGED <<queue, wait>>
    /\ UNCHANGED <<lvars, rvars, bvars, svars, avars, cvars, prom, index, lock, msgs, pend, posted, runs, job, ids, snap,
                   late, phase>>

\* An sRem that empties the index of the thread.
removeJobsFromThreadIndex_all(t, S) == [index EXCEPT ![t] = {}]

\* removeJobsFromThreadIndex(threadId, jobIds): sRem
removeJobsFromThreadIndex(t, S) == [index EXCEPT ![t] = @ \ S]

P_SRem(w) ==
    /\ pc[w] = "p_srem"
    /\ \/ /\ index' = removeJobsFromThreadIndex(threadOf(job[w]), snap[w])
          /\ pc' = [pc EXCEPT ![w] = "p_newer"]
          /\ UNCHANGED <<out, faults>>
       \/ /\ externalFailure(w)
          /\ UNCHANGED index
    /\ UNCHANGED <<lvars, rvars, bvars, svars, avars, cvars, prom, wait, queue, lock, msgs, pend, posted, runs, job, ids, snap,
                   late, phase>>

\* A result that counts the jobs of the batch that are still in the queue.
ProcessingResult_live(w) ==
    [threadId |-> threadOf(job[w]),
     messagesProcessed |-> Cardinality(getJobs(snap[w])),
     processedJobIds |-> sortByTimestamp(snap[w]),
     runId |-> run[w],
     status |-> "completed"]

\* return {threadId, messagesProcessed: jobs.length, processedJobIds: jobIds,
\*         runId: run.id, status}: jobs is sorted, status is what
\* waitForRunCompletion returned
ProcessingResult(w) ==
    [threadId |-> threadOf(job[w]),
     messagesProcessed |-> Len(sortByTimestamp(snap[w])),
     processedJobIds |-> sortByTimestamp(snap[w]),
     runId |-> run[w],
     status |-> "completed"]

\* getNewerJobsByThreadId: sMembers ...
P_Newer(w) ==
    /\ pc[w] = "p_newer"
    /\ sMembers(w, "p_nfetch")
    /\ UNCHANGED <<lvars, rvars, bvars, svars, avars, cvars, prom, wait, queue, index, lock, msgs, pend, posted, runs, job, snap, out,
                   faults, late, phase>>

\* A search for newer jobs that does not look at the timestamp.
getNewerJobsByThreadId_noFilter(S, timestamp) == getJobs(S)

\* ... getJob, filter(job => job.data.timestamp > timestamp), sort
getNewerJobsByThreadId(S, timestamp) == {j \in getJobs(S) : stampOf(j) > timestamp}

\* newerJobs[0], kept in ids as the job to promote
P_NFetch(w) ==
    /\ pc[w] = "p_nfetch"
    /\ LET newerJobs == getNewerJobsByThreadId(ids[w], maxTimestamp(snap[w]))
       IN IF newerJobs = {}
          THEN /\ ids' = [ids EXCEPT ![w] = {}]
               /\ result' = [result EXCEPT ![w] = ProcessingResult(w)]
               /\ pc' = [pc EXCEPT ![w] = "p_get"]
          ELSE /\ ids' = [ids EXCEPT ![w] = {oldest(newerJobs)}]
               /\ result' = result
               /\ pc' = [pc EXCEPT ![w] = "p_promote"]
    /\ UNCHANGED <<lvars, rvars, bvars, svars, avars, run, prom, wait, queue, index, lock, msgs, pend, posted, runs, job, snap, out,
                   faults, late, phase>>

\* newerJobs[0].promote(): a delayed job becomes dispatchable at once
promote(j) ==
    IF queue[j].st \in {"delayed", "redelayed"}
    THEN [queue EXCEPT ![j].st = "waiting"] ELSE queue

\* What promote() does with a job that is not delayed (it was dispatched or
\* removed since it was fetched) is the queue's choice: nothing, or it throws.
P_Promote(w) ==
    /\ pc[w] = "p_promote"
    /\ LET j == CHOOSE x \in ids[w] : TRUE
       IN /\ queue' = promote(j)
          /\ wait' = IF queue[j].st \in {"delayed", "redelayed"}
                     THEN Append(wait, j) ELSE wait
          /\ prom' = IF queue[j].st \in {"delayed", "redelayed"}
                     THEN [prom EXCEPT ![threadOf(j)] = j] ELSE prom
          /\ \/ /\ out' = out
                /\ result' = [result EXCEPT ![w] = ProcessingResult(w)]
             \/ /\ queue[j].st \notin {"delayed", "redelayed"}
                /\ out' = [out EXCEPT ![w] = "err"]
                /\ result' = result
    /\ ids' = [ids EXCEPT ![w] = {}]
    /\ pc' = [pc EXCEPT ![w] = "p_get"]
    /\ UNCHANGED <<lvars, rvars, bvars, svars, avars, run, index, lock, msgs, pend, posted, runs, job, snap,
                   faults, late, phase>>

\* finally: currentLock = get(lockKey); if (currentLock === lockValue) ...
endOfCycle(w) == IF out[w] = "ok" THEN "ret" ELSE "thr"

P_Get(w) ==
    /\ pc[w] = "p_get"
    /\ pc' = [pc EXCEPT ![w] = IF lock[threadOf(job[w])] = w THEN "p_del"
                                ELSE endOfCycle(w)]
    /\ UNCHANGED <<lvars, rvars, bvars, svars, avars, cvars, prom, wait, queue, index, lock, msgs, pend, posted, runs, job, ids, snap, out,
                   faults, late, phase>>

\* A del that leaves the key in place.
del_noop(t) == lock

\* ... del(lockKey)
del(t) == [lock EXCEPT ![t] = 0]

P_Del(w) ==
    /\ pc[w] = "p_del"
    /\ lock' = del(threadOf(job[w]))
    /\ pc' = [pc EXCEPT ![w] = endOfCycle(w)]
    /\ UNCHANGED <<lvars, rvars, bvars, svars, avars, cvars, prom, wait, queue, index, msgs, pend, posted, runs, job, ids, snap, out,
                   faults, late, phase>>

\* The lock key expires (EX lockDuration / 1000): the cycle that set it has been
\* driving its run, which alone may last as long as the TTL.
Slow == {"p_wait", "p_remove", "p_srem", "p_newer", "p_nfetch", "p_promote",
         "p_get", "p_del"}

Expire(t) ==
    /\ lock[t] # 0
    /\ pc[lock[t]] \in Slow
    /\ faults < MaxFaults
    /\ faults' = faults + 1
    /\ lock' = [lock EXCEPT ![t] = 0]
    /\ UNCHANGED <<lvars, rvars, bvars, svars, avars, cvars, prom, wait, queue, index, msgs, pend, posted, runs, wvars, late, phase>>

\* ------------------------------------------------------------ specification
Next ==
    \/ \E t \in Threads, ts \in Stamps : QueueAdd(t, ts)
    \/ \E k \in 1..MaxMsgs : SAdd(k)
    \/ \E j \in JobIds : DelayElapsed(j)
    \/ \E j \in JobIds : BackoffElapsed(j)
    \/ \E w \in Workers, j \in JobIds : Dispatch(w, j)
    \/ \E w \in Workers : H_Index(w)
    \/ \E w \in Workers : H_Fetch(w)
    \/ \E w \in Workers : H_Exists(w)
    \/ \E w \in Workers : H_MoveToDelayed(w)
    \/ \E w \in Workers : P_Lock(w)
    \/ \E w \in Workers : P_PostRun(w)
    \/ \E w \in Workers : P_Wait(w)
    \/ \E w \in Workers : P_Remove(w)
    \/ \E w \in Workers : P_SRem(w)
    \/ \E w \in Workers : P_Newer(w)
    \/ \E w \in Workers : P_NFetch(w)
    \/ \E w \in Workers : P_Promote(w)
    \/ \E w \in Workers : P_Get(w)
    \/ \E w \in Workers : P_Del(w)
    \/ \E w \in Workers : Returned(w)
    \/ \E w \in Workers : Threw(w)
    \/ \E t \in Threads : Expire(t)

Spec == Init /\ [][Next]_vars

\* The state after the only job of thread 1 has failed for good: its trigger
\* threw maxAttempts times before anything was posted (createMessage failed
\* each time), so the queue keeps the job as failed, and nothing took its id
\* out of the index. All else is as after construction.
InitFailed ==
    /\ queue = [j \in JobIds |->
                  IF j = <<1, 1>> THEN [st |-> "failed", msg |-> 1, att |-> maxAttempts]
                  ELSE NoJobRec]
    /\ wait = <<>>
    /\ index = [t \in Threads |-> IF t = 1 THEN {<<1, 1>>} ELSE {}]
    /\ lock = [t \in Threads |-> 0]
    /\ msgs = <<[t |-> 1, ts |-> 1]>>
    /\ pend = {}
    /\ posted = [t \in Threads |-> <<>>]
    /\ runs = [t \in Threads |-> 0]
    /\ pc = [w \in Workers |-> "idle"]
    /\ job = [w \in Workers |-> NoJob]
    /\ ids = [w \in Workers |-> {}]
    /\ snap = [w \in Workers |-> {}]
    /\ out = [w \in Workers |-> "ok"]
    /\ faults = 0
    /\ late = <<0, 0>>
    /\ phase = [t \in Threads |-> IF t = 1 THEN "closed" ELSE "open"]
    /\ prom = [t \in Threads |-> NoJob]
    /\ run = [w \in Workers |-> 0]
    /\ result = [w \in Workers |-> NoResult]
    /\ cpc = [c \in Clients |-> "idle"]
    /\ cop = [c \in Clients |-> "none"]
    /\ cval = [c \in Clients |-> 0]
    /\ cread = [c \in Clients |-> 0]
    /\ cres = [c \in Clients |-> "none"]
    /\ cdel = [c \in Clients |-> FALSE]
    /\ ttl = 0
    /\ InitWait /\ NoBatch /\ NoWorker
    /\ handleRequiresAction = FALSE
    /\ NoAdapter

SpecFailed == InitFailed /\ [][Next]_vars

\* ------------------------------------------------------------ redis-helper.ts
\* acquireLock(client, lockKey, lockValue, expiryInSeconds): SET NX EX, one call.
\* A set without NX: the key is overwritten, value and expiry.
acquireLock_noNX(c, key, value, expiryInSeconds) ==
    /\ cpc[c] = "idle"
    /\ lock' = [lock EXCEPT ![key] = value]
    /\ ttl' = expiryInSeconds
    /\ cres' = [cres EXCEPT ![c] = "true"]
    /\ cval' = [cval EXCEPT ![c] = value]
    /\ cop' = [cop EXCEPT ![c] = "acquireLock"]
    /\ UNCHANGED <<cpc, cread, cdel, qvars, rvars, bvars, svars, avars>>

\* acquireLock(client, lockKey, lockValue, expiryInSeconds):
\* set(lockKey, lockValue, {NX, EX}), truthy when the key was set
acquireLock(c, key, value, expiryInSeconds) ==
    /\ cpc[c] = "idle"
    /\ lock' = IF lock[key] = 0 THEN [lock EXCEPT ![key] = value] ELSE lock
    /\ ttl' = IF lock[key] = 0 THEN expiryInSeconds ELSE ttl
    /\ cres' = [cres EXCEPT ![c] = IF lock[key] = 0 THEN "true" ELSE "false"]
    /\ cval' = [cval EXCEPT ![c] = value]
    /\ cop' = [cop EXCEPT ![c] = "acquireLock"]
    /\ UNCHANGED <<cpc, cread, cdel, qvars, rvars, bvars, svars, avars>>

\* A comparison that takes every value for the caller's.
anyValue(currentLock, lockValue) == TRUE

\* if (currentLock === lockValue)
sameValue(currentLock, lockValue) == currentLock = lockValue

\* releaseLock(client, lockKey, lockValue): currentLock = get(lockKey);
\* a different value: return false
releaseLockGet(c, key, value) ==
    /\ cpc[c] = "idle"
    /\ cop' = [cop EXCEPT ![c] = "releaseLock"]
    /\ cval' = [cval EXCEPT ![c] = value]
    /\ cread' = [cread EXCEPT ![c] = lock[key]]
    /\ cdel' = [cdel EXCEPT ![c] = FALSE]
    /\ IF sameValue(lock[key], value)
       THEN /\ cpc' = [cpc EXCEPT ![c] = "del"]
            /\ cres' = [cres EXCEPT ![c] = "none"]
       ELSE /\ cpc' = cpc
            /\ cres' = [cres EXCEPT ![c] = "false"]
    /\ UNCHANGED <<lock, ttl, qvars, rvars, bvars, svars, avars>>

\* ... the same value: del(lockKey); return true
releaseLockDel(c, key) ==
    /\ cpc[c] = "del"
    /\ lock' = del(key)
    /\ ttl' = 0
    /\ cdel' = [cdel EXCEPT ![c] = TRUE]
    /\ cres' = [cres EXCEPT ![c] = "true"]
    /\ cpc' = [cpc EXCEPT ![c] = "idle"]
    /\ UNCHANGED <<cop, cval, cread, qvars, rvars, bvars, svars, avars>>

\* lockExists(client, lockKey): exists(lockKey) > 0
lockExists(c, key) ==
    /\ cpc[c] = "idle"
    /\ cres' = [cres EXCEPT ![c] = IF lock[key] # 0 THEN "true" ELSE "false"]
    /\ cop' = [cop EXCEPT ![c] = "lockExists"]
    /\ UNCHANGED <<lock, ttl, cpc, cval, cread, cdel, qvars, rvars, bvars, svars, avars>>

\* A second passes while the key has more than one left.
Second ==
    /\ ttl > 1
    /\ ttl' = ttl - 1
    /\ UNCHANGED <<lock, cpc, cop, cval, cread, cres, cdel, qvars, rvars, bvars, svars, avars>>

\* The key's TTL (expiryInSeconds) runs out.
ExpireKey(key) ==
    /\ lock[key] # 0
    /\ ttl = 1
    /\ lock' = [lock EXCEPT ![key] = 0]
    /\ ttl' = 0
    /\ UNCHANGED <<cpc, cop, cval, cread, cres, cdel, qvars, rvars, bvars, svars, avars>>

NextLock ==
    \/ \E c \in Clients, v \in Tokens, e \in Expiries : acquireLock(c, 1, v, e)
    \/ \E c \in Clients, v \in Tokens : releaseLockGet(c, 1, v)
    \/ \E c \in Clients : releaseLockDel(c, 1)
    \/ \E c \in Clients : lockExists(c, 1)
    \/ Second
    \/ ExpireKey(1)

SpecLock == Init /\ [][NextLock]_vars

\* ------------------------------------------------------------ waitForRunCompletion
\* A delay that grows without a cap.
nextDelay_nocap(d) == (d * 3) \div 2

\* delay = Math.min(delay * 1.5, maxDelay)
nextDelay(d) == IF (d * 3) \div 2 < maxDelay THEN (d * 3) \div 2 ELSE maxDelay

\* A failure that is logged and swallowed: the loop goes on.
thrown_swallowed(why) == rpc' = "loop" /\ err' = why

\* throw
thrown(why) == rpc' = "thrown" /\ err' = why

\* return status, whatever it is
afterLoop_any == rpc' = "returned" /\ err' = err

\* if (status !== "completed") throw ...; return status
afterLoop == IF status # "completed" THEN thrown("ended")
             ELSE rpc' = "returned" /\ err' = err

\* A loop that also goes on while the run requires action.
polling_requires_action(st) == st \in {"in_progress", "queued", "requires_action"}

\* ["in_progress", "queued"].includes(status)
polling(st) == st \in {"in_progress", "queued"}

\* while (polling): timeout check, or the loop is left
W_Loop ==
    /\ rpc = "loop"
    /\ IF polling(status)
       THEN IF now > maxWaitTime THEN thrown("timeout")
            ELSE rpc' = "sleep" /\ err' = err
       ELSE afterLoop
    /\ UNCHANGED <<handleRequiresAction, status, delay, now, polled, toolCalls, given,
                   outputs, submitted, slept, handled, qvars, lock, lvars, bvars, svars, avars>>

\* await new Promise(resolve => setTimeout(resolve, delay))
W_Sleep ==
    /\ rpc = "sleep"
    /\ now' = now + delay
    /\ slept' = delay
    /\ rpc' = "retrieve"
    /\ UNCHANGED <<handleRequiresAction, status, delay, polled, toolCalls, given,
                   outputs, submitted, handled, err, qvars, lock, lvars, bvars, svars, avars>>

\* checkRun = await runs.retrieve(threadId, runId); status = checkRun.status;
\* requires_action with a handler: toolCalls = the tool calls of checkRun;
\* otherwise the delay grows and the loop condition is next. Or the call throws.
W_Retrieve(s, tc, d) ==
    /\ rpc = "retrieve"
    /\ now' = now + d
    /\ given' = <<>> /\ outputs' = {} /\ submitted' = <<>>
    /\ \/ /\ s # "requires_action" /\ tc = {}
          /\ status' = s /\ polled' = s /\ toolCalls' = tc
          /\ delay' = nextDelay(delay)
          /\ rpc' = "loop" /\ err' = err
       \/ /\ s = "requires_action" /\ tc # {}
          /\ status' = s /\ polled' = s /\ toolCalls' = tc
          /\ IF handleRequiresAction
             THEN rpc' = "handle" /\ delay' = delay
             ELSE rpc' = "loop" /\ delay' = nextDelay(delay)
          /\ err' = err
       \/ /\ s = "failed" /\ tc = {} /\ d = 0
          /\ thrown("retrieve")
          /\ UNCHANGED <<status, polled, toolCalls, delay>>
    /\ UNCHANGED <<handleRequiresAction, slept, handled, qvars, lock, lvars, bvars, svars, avars>>

\* toolOutputs = await handleRequiresAction(threadId, runId, toolCalls), or the
\* handler throws: catch (error) { throw error }
W_Handle(o, d) ==
    /\ rpc = "handle"
    /\ now' = now + d
    /\ given' = Append(given, toolCalls)
    /\ \/ /\ outputs' = o
          /\ rpc' = "submit" /\ err' = err
       \/ /\ o = {}
          /\ outputs' = outputs
          /\ thrown("handler")
    /\ UNCHANGED <<handleRequiresAction, status, delay, polled, toolCalls, submitted,
                   slept, handled, qvars, lock, lvars, bvars, svars, avars>>

\* A status that is left as it was polled.
resumed_kept == status

\* status = "in_progress" (reset status to continue polling)
resumed == "in_progress"

\* await submitToolOutputs(threadId, runId, toolOutputs); status = "in_progress";
\* then the delay grows; or the call throws
W_Submit(d) ==
    /\ rpc = "submit"
    /\ now' = now + d
    /\ \/ /\ submitted' = Append(submitted, outputs)
          /\ status' = resumed
          /\ handled' = TRUE
          /\ delay' = nextDelay(delay)
          /\ rpc' = "loop" /\ err' = err
       \/ /\ d = 0
          /\ thrown("submit")
          /\ UNCHANGED <<submitted, status, handled, delay>>
    /\ UNCHANGED <<handleRequiresAction, polled, toolCalls, given, outputs, slept,
                   qvars, lock, lvars, bvars, svars, avars>>

NextRun ==
    \/ W_Loop
    \/ W_Sleep
    \/ \E s \in Statuses, tc \in SUBSET ToolCalls, d \in CallTimes : W_Retrieve(s, tc, d)
    \/ \E o \in SUBSET ToolCalls, d \in CallTimes : W_Handle(o, d)
    \/ \E d \in CallTimes : W_Submit(d)

\* The instance was constructed with or without options.handleRequiresAction.
InitRun == InitAll /\ handleRequiresAction \in BOOLEAN /\ NoAdapter

SpecRun == InitRun /\ [][NextRun]_vars

\* ------------------------------------------------------------ instructions
\* jobs.sort((a, b) => a.data.timestamp - b.data.timestamp) on job data
RECURSIVE sortJobs(_)
sortJobs(js) ==
    IF js = <<>> THEN <<>>
    ELSE LET i == CHOOSE i \in 1..Len(js) :
                      \A k \in 1..Len(js) : js[i].timestamp <= js[k].timestamp
         IN <<js[i]>> \o sortJobs([k \in 1..(Len(js) - 1) |->
                                        IF k < i THEN js[k] ELSE js[k + 1]])

\* a value that || and && take for true
truthy(v) == v \notin {Undefined, ""}

\* The newest job that carries instructions, the last one if none does.
lastJobWithInstructions(js) ==
    IF \E i \in 1..Len(js) : truthy(js[i].instructions)
    THEN js[CHOOSE i \in 1..Len(js) :
               /\ truthy(js[i].instructions)
               /\ \A k \in (i + 1)..Len(js) : ~truthy(js[k].instructions)]
    ELSE js[Len(js)]

\* jobs[jobs.length - 1]
lastJob(js) == js[Len(js)]

\* The callback and processMessages sort the jobs by timestamp.
B_Sort ==
    /\ bpc = "sort"
    /\ jobs' = sortJobs(jobs)
    /\ bpc' = "instructions"
    /\ UNCHANGED <<defaultInstructions, instructions, runInstructions, qvars, lock, lvars, rvars, svars, avars>>

\* instructions = jobs[jobs.length - 1].data.instructions || defaultInstructions
B_Instructions ==
    /\ bpc = "instructions"
    /\ instructions' = IF truthy(lastJob(jobs).instructions)
                       THEN lastJob(jobs).instructions ELSE defaultInstructions
    /\ bpc' = "createRun"
    /\ UNCHANGED <<jobs, defaultInstructions, runInstructions, qvars, lock, lvars, rvars, svars, avars>>

\* createRun(threadId, {instructions}):
\* runs.create(threadId, {..., ...(options?.instructions && {instructions})})
B_CreateRun ==
    /\ bpc = "createRun"
    /\ runInstructions' = IF truthy(instructions) THEN instructions ELSE Undefined
    /\ bpc' = "created"
    /\ UNCHANGED <<jobs, defaultInstructions, instructions, qvars, lock, lvars, rvars, svars, avars>>

NextBatch ==
    \/ B_Sort
    \/ B_Instructions
    \/ B_CreateRun

\* processMessages was given the jobs of a thread, under some configuration.
InitBatch ==
    /\ InitRest /\ handleRequiresAction = FALSE /\ NoAdapter
    /\ jobs \in Batches
    /\ defaultInstructions \in Defaults
    /\ instructions = Undefined
    /\ runInstructions = Undefined
    /\ bpc = "sort"

SpecBatch == InitBatch /\ [][NextBatch]_vars

\* ------------------------------------------------------------ startWorker, close
\* startWorker(): if (this.worker) return this.worker; otherwise the Redis
\* connection is asked for (not awaited), a Worker is created, kept in
\* this.worker and returned. Synchronous: one step.
startWorker ==
    /\ IF worker # 0
       THEN /\ ret' = worker
            /\ UNCHANGED <<worker, alive, made, connecting>>
       ELSE /\ made < MaxWorkers
            /\ connecting' = (connecting \/ ~isOpen)
            /\ made' = made + 1
            /\ alive' = alive \cup {made + 1}
            /\ worker' = made + 1
            /\ ret' = made + 1
    /\ UNCHANGED <<qvars, lock, lvars, rvars, bvars, avars, kpc, ktarget, isOpen>>

\* ensureRedisConnection: the connect() it started resolves.
E_Connected ==
    /\ connecting
    /\ connecting' = FALSE
    /\ isOpen' = TRUE
    /\ UNCHANGED <<qvars, lock, lvars, rvars, bvars, avars,
                   worker, alive, made, kpc, ktarget, ret>>

\* close() is called: if (this.worker) it calls this.worker.close() and awaits
\* it; otherwise it goes on to close the queue.
K_Begin(c) ==
    /\ kpc[c] = "idle"
    /\ IF worker # 0
       THEN /\ kpc' = [kpc EXCEPT ![c] = "worker"]
            /\ ktarget' = [ktarget EXCEPT ![c] = worker]
       ELSE /\ kpc' = [kpc EXCEPT ![c] = "queue"]
            /\ UNCHANGED ktarget
    /\ UNCHANGED <<qvars, lock, lvars, rvars, bvars, avars,
                   worker, alive, made, ret, connecting, isOpen>>

\* await this.worker.close() resolves: that Worker is closed; then
\* this.worker = null, and this.queue.close() is called.
K_WorkerClosed(c) ==
    /\ kpc[c] = "worker"
    /\ alive' = alive \ {ktarget[c]}
    /\ worker' = 0
    /\ kpc' = [kpc EXCEPT ![c] = "queue"]
    /\ UNCHANGED <<qvars, lock, lvars, rvars, bvars, avars,
                   made, ktarget, ret, connecting, isOpen>>

\* await this.queue.close() resolves; if (this.redisClient.isOpen) quit() is
\* called.
K_QueueClosed(c) ==
    /\ kpc[c] = "queue"
    /\ kpc' = [kpc EXCEPT ![c] = IF isOpen THEN "quit" ELSE "idle"]
    /\ ktarget' = [ktarget EXCEPT ![c] = IF isOpen THEN @ ELSE 0]
    /\ UNCHANGED <<qvars, lock, lvars, rvars, bvars, avars,
                   worker, alive, made, ret, connecting, isOpen>>

\* await this.redisClient.quit() resolves: close() returns.
K_Quit(c) ==
    /\ kpc[c] = "quit"
    /\ isOpen' = FALSE
    /\ kpc' = [kpc EXCEPT ![c] = "idle"]
    /\ ktarget' = [ktarget EXCEPT ![c] = 0]
    /\ UNCHANGED <<qvars, lock, lvars, rvars, bvars, avars,
                   worker, alive, made, ret, connecting>>

NextWorker ==
    \/ startWorker
    \/ E_Connected
    \/ \E c \in Closers : K_Begin(c)
    \/ \E c \in Closers : K_WorkerClosed(c)
    \/ \E c \in Closers : K_QueueClosed(c)
    \/ \E c \in Closers : K_Quit(c)

SpecWorker == Init /\ [][NextWorker]_vars

\* ------------------------------------------------------------ express-adapter.ts
\* new AssistantMessageQueue(options): this.options = {handleRequiresAction:
\* null, ...options}: a handler is configured iff the options hold one.
newAssistantMessageQueue(h) == h

\* createAssistantRouter(options): the queue is created with redisUrl,
\* openAIApiKey and assistantId only, and the block for a handleRequiresAction
\* of the options registers nothing (its only statement is commented out): the
\* queue of the router has no handler, whatever the options hold.
createAssistantRouter(h) == newAssistantMessageQueue(FALSE)

\* A queue created by the constructor or by createAssistantRouter, from options
\* with or without a handleRequiresAction; waitForRunCompletion is entered.
InitRouter ==
    /\ InitAll
    /\ via \in {"constructor", "router"}
    /\ optHandler \in BOOLEAN
    /\ handleRequiresAction = IF via = "router" THEN createAssistantRouter(optHandler)
                              ELSE newAssistantMessageQueue(optHandler)
    /\ NoCalls

SpecRouter == InitRouter /\ [][NextRun]_vars

\* createFunctionCallHandler(handlers)(event). The tool calls of an event have
\* distinct ids; a call names a function and carries its arguments as text.
MaxCalls == 2

ToolCallIds == 1..MaxCalls

\* handlers: the functions with a registered handler. The handler of
\* "get_user_info" returns, the handler of "broken" throws (or rejects).
Registered == {"get_user_info", "broken"}

Functions == Registered \cup {"unknown"}

\* func.arguments: text that JSON.parse accepts, or not.
Arguments == {"json", "text"}

ToolCall == [id : ToolCallIds, name : Functions, arguments : Arguments]

RECURSIVE distinctIds(_)
distinctIds(s) ==
    IF s = <<>> THEN TRUE
    ELSE /\ \A i \in 2..Len(s) : s[i].id # s[1].id
         /\ distinctIds(Tail(s))

\* event.requiredAction
Events ==
    {[type |-> ty, tool_calls |-> s] :
        ty \in {"submit_tool_outputs", "other"},
        s \in {q \in UNION {[1..n -> ToolCall] : n \in 0..MaxCalls} : distinctIds(q)}}

\* The callback has not returned for this tool call.
NoOutput == [tool_call_id |-> 0, output |-> <<>>]

\* output: JSON.stringify({ error: String(error) })
errorOutput(tc, e) == [tool_call_id |-> tc.id, output |-> <<"error", e>>]

\* A callback that takes every function to have a handler that returns.
toolCallOutput_noLookup(tc) ==
    [tool_call_id |-> tc.id, output |-> <<"result", tc.name>>]

\* The callback of tool_calls.map: try { handler = handlers[func.name]; no
\* handler: throw; args = JSON.parse(func.arguments); output = await
\* handler(args); return {tool_call_id: id, output: JSON.stringify(output)} }
\* catch (error) { return {tool_call_id: toolCall.id, output: the error} }
toolCallOutput(tc) ==
    IF tc.name \notin Registered THEN errorOutput(tc, "No handler found")
    ELSE IF tc.arguments # "json" THEN errorOutput(tc, "SyntaxError")
    ELSE IF tc.name = "broken" THEN errorOutput(tc, "thrown by the handler")
    ELSE [tool_call_id |-> tc.id, output |-> <<"result", tc.name>>]

\* The handler is called: for submit_tool_outputs every tool call is mapped
\* (Promise.all); for another type it returns at once.
F_Enter ==
    /\ fpc = "call"
    /\ IF requiredAction.type = "submit_tool_outputs"
       THEN /\ toolOutputs' = [i \in 1..Len(requiredAction.tool_calls) |-> NoOutput]
            /\ fpc' = "map"
       ELSE /\ fpc' = "done"
            /\ UNCHANGED toolOutputs
    /\ UNCHANGED <<qvars, lock, lvars, rvars, bvars, svars,
                   via, optHandler, requiredAction, fsubmits>>

\* The callback of one tool call returns; the calls end in any order, and
\* Promise.all keeps each result at the place of its tool call.
F_ToolCall(i) ==
    /\ fpc = "map"
    /\ i \in 1..Len(toolOutputs)
    /\ toolOutputs[i] = NoOutput
    /\ toolOutputs' = [toolOutputs EXCEPT ![i] = toolCallOutput(requiredAction.tool_calls[i])]
    /\ UNCHANGED <<qvars, lock, lvars, rvars, bvars, svars,
                   via, optHandler, requiredAction, fsubmits, fpc>>

\* Promise.all resolved: await queue.submitToolOutputs(threadId, runId,
\* toolOutputs); the call returns, or it throws and so does the handler.
F_Submit ==
    /\ fpc = "map"
    /\ \A i \in 1..Len(toolOutputs) : toolOutputs[i] # NoOutput
    /\ fsubmits' = Append(fsubmits, toolOutputs)
    /\ fpc' \in {"done", "thrown"}
    /\ UNCHANGED <<qvars, lock, lvars, rvars, bvars, svars,
                   via, optHandler, requiredAction, toolOutputs>>

NextCalls ==
    \/ F_Enter
    \/ \E i \in 1..MaxCalls : F_ToolCall(i)
    \/ F_Submit

\* The handler built by createFunctionCallHandler is called with an event.
InitCalls ==
    /\ InitAll /\ handleRequiresAction = FALSE
    /\ via = "constructor" /\ optHandler = FALSE
    /\ requiredAction \in Events
    /\ toolOutputs = <<>>
    /\ fsubmits = <<>>
    /\ fpc = "call"

SpecCalls == InitCalls /\ [][NextCalls]_vars

\* ------------------------------------------------------------ claims
Live == {"delayed", "redelayed", "waiting", "active", "failed"}

\* addMessageToThread has returned for submission k, and k's job id was its own
\* (no earlier submission of the thread had the same timestamp).
Accepted(k) == k \in 1..Len(msgs) /\ k \notin pend /\ msgOfJob(jobIdOf(k)) = k

Posted(k) ==
    \E i \in 1..Len(posted[msgs[k].t]) :
        \E p \in 1..Len(posted[msgs[k].t][i]) : posted[msgs[k].t][i][p] = k

\* The message is about to be posted: it is in the batch of a handler that is
\* the trigger of its snapshot and has not posted yet.
AboutToBePosted(k) ==
    \E w \in Workers : /\ pc[w] \in {"h_exists", "p_lock", "p_post"}
                       /\ jobIdOf(k) \in snap[w]
                       /\ oldest(snap[w]) = job[w]

NotLost(k) == queue[jobIdOf(k)].st \in Live \/ Posted(k) \/ AboutToBePosted(k)

\* C1: at most one processing cycle per thread is between lock acquisition and
\* the end of its finally block at any instant.
C1_MutualExclusion ==
    \A t \in Threads : Cardinality({w \in Workers : inCycle(w, t)}) <= 1

\* C2: no accepted message is silently dropped: it has a live job, or it was
\* posted, or (read generously) it is in the batch a trigger is about to post.
\* Stated for behaviours without any external failure or lock expiry.
C2_NoMessageDropped ==
    faults = 0 => \A k \in 1..Len(msgs) : Accepted(k) => NotLost(k)

\* C3: a message submitted while a run of its thread is in flight, with a
\* timestamp above that cycle's high-water mark, is never lost.
C3_LateArrivalNotLost ==
    (faults = 0 /\ late[1] # 0 /\ Accepted(late[1])) => NotLost(late[1])

\* The flattened sequence of the messages posted to thread t.
RECURSIVE flatten(_)
flatten(ss) == IF ss = <<>> THEN <<>> ELSE Head(ss) \o flatten(Tail(ss))

msgsOf(t) == {k \in 1..Len(msgs) : msgs[k].t = t}

\* A cycle of t is between posting and the end of its index cleanup.
cleaning(t) ==
    \E w \in Workers : /\ threadOf(job[w]) = t
                       /\ pc[w] \in {"p_post", "p_wait", "p_remove", "p_srem"}

\* C4: N messages submitted to a thread within one batching window (all
\* accepted before the first dispatch, at distinct milliseconds, nothing
\* submitted later, no failure, no expiry): once a cycle has finished its
\* cleanup exactly one run was started, its combined message holds all N in
\* timestamp order, and none of the N job ids is in the index.
C4_OneRunPerWindow ==
    \A t \in Threads :
        ( /\ phase[t] = "closed" /\ faults = 0
          /\ \A k \in msgsOf(t) : Accepted(k)
          /\ posted[t] # <<>> /\ ~cleaning(t) )
        => /\ runs[t] = 1
           /\ posted[t] = << combinedMessage({jobIdOf(k) : k \in msgsOf(t)}) >>
           /\ index[t] \cap {jobIdOf(k) : k \in msgsOf(t)} = {}

C6_ReleaseComparesValue ==
    \A c \in Clients :
        (cop[c] = "releaseLock" /\ cpc[c] = "idle") =>
            /\ cread[c] # cval[c] => (cres[c] = "false" /\ ~cdel[c])
            /\ cread[c] = cval[c] => (cres[c] = "true" /\ cdel[c])
            /\ cres[c] = "true" <=> cread[c] = cval[c]

C6_Witness ==
    \E c \in Clients : \E d \in Clients :
        /\ cop[c] = "releaseLock" /\ cpc[c] = "idle" /\ cres[c] = "false"
        /\ cread[c] # 0 /\ cread[c] # cval[c] /\ lock[1] = cread[c]
        /\ cop[d] = "releaseLock" /\ cpc[d] = "idle" /\ cres[d] = "true" /\ cdel[d]

\* C7: the delete of the finally block never deletes a lock value set by
\* another cycle.
C7_ForeignLockSurvives ==
    [][\A w \in Workers :
          (pc[w] = "p_del" /\ pc'[w] # "p_del")
             => lock[threadOf(job[w])] \in {0, w}]_vars

\* C8: a job id is in the index of its thread iff the job is in the queue.
\* Read generously: outside the two-call windows of a submission (queue.add,
\* then sAdd) and of a cleanup (job.remove, then sRem), without failures.
inTransit(j) ==
    \/ \E k \in pend : jobIdOf(k) = j
    \/ \E w \in Workers : pc[w] = "p_srem" /\ j \in snap[w]

C8_IndexIffInQueue ==
    faults = 0 =>
       \A j \in JobIds : ~inTransit(j) => (j \in index[threadOf(j)] <=> exists(j))

\* C9: a message submitted while a run of its thread is in flight is not in
\* that run's combined message, and it is processed by a later cycle: it is
\* not lost, and a combined message that holds it was posted after that run's.
C9_LateArrivalInLaterCycle ==
    (faults = 0 /\ late[1] # 0 /\ Accepted(late[1])) =>
        LET t == msgs[late[1]].t
        IN /\ \A i \in 1..Len(posted[t]) :
                 (\E p \in 1..Len(posted[t][i]) : posted[t][i][p] = late[1])
                    => i > late[2]
           /\ NotLost(late[1])

\* C10: of two messages of a thread, the one with the smaller timestamp is
\* never posted after the other (no failure, no expiry).
C10_PostedInTimestampOrder ==
    faults = 0 =>
       \A t \in Threads :
          LET f == flatten(posted[t])
          IN \A p \in 1..Len(f) : \A q \in 1..Len(f) :
                p < q => msgs[f[p]].ts <= msgs[f[q]].ts

\* C11: waitForRunCompletion returns only when the last polled status is
\* completed; when any other status ended the polling it has thrown.
C11_SuccessOnlyWhenCompleted ==
    /\ rpc = "returned" => (polled = "completed" /\ status = "completed")
    /\ (rpc \in {"returned", "thrown"} /\ polled # "completed") => rpc = "thrown"
    /\ (rpc = "thrown" /\ err = "ended") => ~polling(polled)

C11_Witness == rpc = "returned" /\ polled = "completed" /\ slept > initialDelay

\* C12: with a handler, a poll that observes requires_action is followed, before
\* the next poll, by one handler call with all tool calls of the observation
\* and one submission of all the outputs it returned, and the status is
\* in_progress again; the run can then reach completed.
C12_HandlerRunsAndResumes ==
    (handleRequiresAction /\ polled = "requires_action"
        /\ rpc \in {"loop", "sleep", "retrieve"})
    => /\ given = <<toolCalls>>
       /\ submitted = <<outputs>>
       /\ status = "in_progress"

C12_Witness ==
    /\ rpc = "returned" /\ handled /\ handleRequiresAction
    /\ given = <<>> /\ polled = "completed"

\* C13: without a handler, a poll that observes requires_action ends the
\* polling at once: no sleep and no poll follows, no handler is called, nothing
\* is submitted, and waitForRunCompletion throws.
C13_NoHandlerFailsAtOnce ==
    (~handleRequiresAction /\ polled = "requires_action")
    => /\ rpc \in {"loop", "thrown"}
       /\ given = <<>> /\ submitted = <<>>
       /\ rpc = "thrown" => err = "ended"

C13_Witness ==
    /\ ~handleRequiresAction /\ polled = "requires_action"
    /\ rpc = "thrown" /\ err = "ended" /\ now < maxWaitTime

\* C14: a failure of the tool-call handler ends waitForRunCompletion: the
\* handler was called once for the observation, nothing was submitted for it,
\* and the loop is not re-entered.
C14_HandlerFailureEndsRun ==
    err = "handler" => (rpc = "thrown" /\ Len(given) = 1 /\ submitted = <<>>)

C14_Witness == err = "handler" /\ rpc = "thrown" /\ given = <<toolCalls>>

\* C15: the poll delays start at 1000 ms, each next one is
\* min(previous * 1.5, 15000), so they never decrease and never exceed
\* 15000 ms, also after a requires_action was handled.
C15_DelaysGrowToCap ==
    rpc = "sleep" =>
        /\ delay <= maxDelay /\ delay >= slept
        /\ IF slept = 0 THEN delay = initialDelay
           ELSE \/ 2 * delay = 3 * slept
                \/ delay = maxDelay /\ 3 * slept >= 2 * maxDelay

C15_Witness ==
    rpc = "sleep" /\ handled /\ polled = "requires_action" /\ delay = maxDelay

\* C16: waitForRunCompletion never takes more than maxWaitTime, from its start
\* to its return or failure.
C16_WithinCeiling ==
    rpc \in {"returned", "thrown"} => now <= maxWaitTime

\* C17: once maxWaitTime has elapsed the call fails with the timeout error:
\* it returns no success for a status polled after the ceiling, fails with
\* nothing but the timeout then, and is not inside the handling of a
\* requires_action past the ceiling.
C17_TimeoutRegardlessOfState ==
    now > maxWaitTime =>
        /\ rpc # "returned"
        /\ rpc = "thrown" => err = "timeout"
        /\ rpc \notin {"handle", "submit"}


\* The thread a step of slot w works for.
actsFor(w) == IF job[w] # NoJob THEN threadOf(job[w]) ELSE threadOf(job'[w])

\* C18: cycles of different threads are independent. A step of a handler or
\* cycle of one thread leaves the index, the jobs and the lock of every other
\* thread unchanged; a job is rescheduled or fails at the lock only when the
\* lock of its own thread is set, and is skipped only for another job of its
\* own thread that is the oldest of its snapshot.
C18_ThreadsIndependent ==
    [][\A w \in Workers : pc'[w] # pc[w] =>
          /\ \A t \in Threads \ {actsFor(w)} :
                /\ index'[t] = index[t]
                /\ lock'[t] = lock[t]
                /\ \A j \in JobIds : threadOf(j) = t => queue'[j] = queue[j]
          /\ snap'[w] \subseteq {j \in JobIds : threadOf(j) = actsFor(w)}
          /\ (pc[w] = "h_exists" /\ pc'[w] = "h_delay") => lock[actsFor(w)] # 0
          /\ (pc[w] = "p_lock" /\ pc'[w] = "thr") => lock[actsFor(w)] # 0
          /\ (pc[w] = "h_exists" /\ pc'[w] = "ret") =>
                /\ oldest(snap[w]) # job[w]
                /\ threadOf(oldest(snap[w])) = actsFor(w)
      ]_vars

\* A cycle of one thread is in flight and holds its lock while a handler of
\* another thread, dispatched since, goes on to acquire the lock of its own.
C18_Witness ==
    \E w1 \in Workers, w2 \in Workers :
        /\ inCycle(w1, 1) /\ pc[w1] = "p_wait" /\ lock[1] = w1
        /\ threadOf(job[w2]) = 2 /\ pc[w2] = "p_lock"
        /\ index[1] # {} /\ index[2] # {}

\* C19: when addMessageToThread returns for a submission, a job with the
\* returned id that carries that submission's thread, message and timestamp
\* is in the queue, still waiting for its delay, and the id is in the index
\* of that thread and of no other.
C19_SubmissionStored ==
    [][\A k \in pend : k \notin pend' =>
          LET j == jobIdOf(k)
          IN /\ queue'[j].st = "delayed" /\ queue'[j].att = 0
             /\ queue'[j].msg = k
             /\ j \in index'[msgs[k].t]
             /\ \A t \in Threads \ {msgs[k].t} : j \notin index'[t]
      ]_vars

\* C20: a job promoted by a finishing cycle is not delayed again before its
\* cycle begins: the handler dispatched with it is never about to reschedule
\* it by 5 s (moveToDelayed) because the lock is still set.
C20_PromotedNotDelayedAgain ==
    \A w \in Workers :
        ~(pc[w] = "h_delay" /\ faults = 0 /\ job[w] = prom[threadOf(job[w])])

\* Every job but j is as it was.
otherJobsUnchanged(j) == \A j2 \in JobIds \ {j} : queue'[j2] = queue[j2]

\* C21: a handler that finds the lock of its thread set reschedules its job
\* (moveToDelayed) and returns, whether or not the job is the oldest: the lock,
\* the external thread, the index and the other jobs are as they were, and
\* the job, if it was in the queue, is delayed again.
C21_LockedJobRescheduled ==
    [][\A w \in Workers :
          /\ (pc[w] = "h_exists" /\ pc'[w] # "h_exists"
                /\ lock[threadOf(job[w])] # 0)
             => (pc'[w] = "h_delay" /\ UNCHANGED <<lock, posted, runs, index, queue>>)
          /\ (pc[w] = "h_delay" /\ pc'[w] # "h_delay")
             => /\ pc'[w] = "idle"
                /\ UNCHANGED <<lock, posted, runs, index>>
                /\ otherJobsUnchanged(job[w])
                /\ exists(job[w]) => queue'[job[w]].st = "redelayed"
                /\ queue'[job[w]].att = queue[job[w]].att
      ]_vars

\* The oldest job of a locked thread was rescheduled: it is delayed again, its
\* attempts are as they were, and its id is in the index.
C21_Witness ==
    \E j \in JobIds :
        /\ queue[j].st = "redelayed" /\ queue[j].att = 0
        /\ lock[threadOf(j)] # 0
        /\ j \in index[threadOf(j)]
        /\ \A j2 \in index[threadOf(j)] : exists(j2) => stampOf(j) <= stampOf(j2)

\* C22: when the thread is not locked, a handler goes on to processMessages
\* exactly when its job is the oldest of its snapshot; every other handler
\* returns, and until the queue has completed its job the lock, the external
\* thread, the index and the other jobs are as they were.
C22_OnlyOldestTriggers ==
    [][\A w \in Workers :
          /\ (pc[w] = "h_exists" /\ pc'[w] # "h_exists"
                /\ lock[threadOf(job[w])] = 0)
             => /\ pc'[w] = "p_lock" <=>
                      (job[w] \in snap[w]
                         /\ \A j \in snap[w] : stampOf(job[w]) <= stampOf(j))
                /\ pc'[w] \in {"p_lock", "ret"}
                /\ UNCHANGED <<lock, posted, runs, index, queue>>
          /\ (pc[w] = "ret" /\ pc'[w] # "ret" /\ snap[w] # {}
                /\ oldest(snap[w]) # job[w])
             => /\ UNCHANGED <<lock, posted, runs, index>>
                /\ otherJobsUnchanged(job[w])
      ]_vars

\* A handler whose job is not the oldest of its snapshot has returned, while
\* the thread is not locked.
C22_Witness ==
    \E w \in Workers :
        /\ pc[w] = "ret" /\ snap[w] # {} /\ job[w] \in snap[w]
        /\ oldest(snap[w]) # job[w]
        /\ lock[threadOf(job[w])] = 0 /\ runs[threadOf(job[w])] = 0

\* C23: getJobsByThreadId reads the ids of the thread's index and returns those
\* whose job is still in the queue, skipping the ids of removed jobs; a
\* handler that gets an empty list returns without a lock check, a lock or a
\* run, and changes no other job.
C23_LiveJobsOfIndex ==
    [][\A w \in Workers :
          /\ (pc[w] = "h_index" /\ pc'[w] # "h_index")
             => /\ ids'[w] = index[threadOf(job[w])]
                /\ UNCHANGED <<lock, posted, runs, index, queue>>
          /\ (pc[w] = "h_fetch" /\ pc'[w] # "h_fetch")
             => /\ snap'[w] = {j \in ids[w] : queue[j].st # "none"}
                /\ pc'[w] = IF snap'[w] = {} THEN "ret" ELSE "h_exists"
                /\ UNCHANGED <<lock, posted, runs, index, queue>>
          /\ (pc[w] = "ret" /\ pc'[w] # "ret" /\ snap[w] = {})
             => /\ pc'[w] = "idle"
                /\ UNCHANGED <<lock, posted, runs, index>>
                /\ otherJobsUnchanged(job[w])
      ]_vars

\* A handler got an empty list although the index of its thread holds ids:
\* every id it read belonged to a removed job.
C23_Witness ==
    \E w \in Workers :
        /\ pc[w] = "ret" /\ snap[w] = {} /\ job[w] # NoJob
        /\ index[threadOf(job[w])] # {}
        /\ \A j \in index[threadOf(job[w])] : ~exists(j)

\* C24: a trigger whose SET NX finds the key set throws "already being
\* processed" and does nothing else: the lock keeps its value, nothing is
\* posted, no run is started, no job leaves the queue or the index; the job of
\* the failed callback stays in the queue (retried, or failed).
C24_LostRaceHasNoEffect ==
    [][\A w \in Workers :
          /\ (pc[w] = "p_lock" /\ pc'[w] # "p_lock" /\ lock[threadOf(job[w])] # 0)
             => /\ pc'[w] = "thr" /\ out'[w] = "ok"
                /\ UNCHANGED <<lock, posted, runs, index, queue>>
          /\ (pc[w] = "thr" /\ pc'[w] # "thr" /\ out[w] = "ok")
             => /\ pc'[w] = "idle"
                /\ UNCHANGED <<lock, posted, runs, index>>
                /\ otherJobsUnchanged(job[w])
                /\ exists(job[w]) => queue'[job[w]].st # "none"
      ]_vars

\* A trigger lost the race: it is about to throw, outside any cycle of its own,
\* while the other worker's cycle holds the lock.
C24_Witness ==
    \E w \in Workers :
        LET t == threadOf(job[w])
        IN /\ pc[w] = "thr" /\ out[w] = "ok"
           /\ lock[t] # 0 /\ lock[t] # w /\ inCycle(lock[t], t)

\* C25: a key holds one value, and a live key has time left; acquireLock
\* succeeds exactly when the key is absent, storing the caller's value and
\* expiry, and on a held key it fails and leaves value and expiry as they were.
C25_AcquireOnlyWhenFree ==
    [][/\ (lock'[1] # 0) <=> (ttl' > 0)
       /\ (lock'[1] # lock[1] /\ lock'[1] # 0) => lock[1] = 0
       /\ ttl' > ttl => (lock[1] = 0 /\ ttl' \in Expiries)
       /\ \A c \in Clients :
             (cop'[c] = "acquireLock"
                /\ <<cop[c], cval[c], cres[c]>>' # <<cop[c], cval[c], cres[c]>>)
             => /\ cres'[c] = IF lock[1] = 0 THEN "true" ELSE "false"
                /\ lock[1] = 0 => (lock'[1] = cval'[c] /\ ttl' \in Expiries)
                /\ lock[1] # 0 => (lock' = lock /\ ttl' = ttl)
      ]_vars

\* An acquireLock with another value failed on a held key, which still holds
\* the value and the expiry of its owner.
C25_Witness ==
    \E c \in Clients :
        /\ cop[c] = "acquireLock" /\ cres[c] = "false"
        /\ lock[1] # 0 /\ lock[1] # cval[c] /\ ttl = 1

\* C26: the lock key outlives the cycle that set it. The key was set before
\* waitForRunCompletion was entered and is deleted after it ended, so at every
\* point of the call the key is at least `now` old: it is alive only while
\* now is below its lifetime.
C26_LockOutlivesCycle ==
    now < lockSeconds * 1000 * Unit

\* C27: the combined message a cycle posts holds the message of every job of
\* its batch exactly once, in ascending order of the jobs' timestamps.
C27_CombinedInTimestampOrder ==
    [][\A w \in Workers :
          LET t == threadOf(job[w])
              b == posted'[t][Len(posted'[t])]
          IN (pc[w] = "p_post" /\ pc'[w] # "p_post" /\ posted' # posted)
             => /\ Len(posted'[t]) = Len(posted[t]) + 1
                /\ \A i \in 1..Len(posted[t]) : posted'[t][i] = posted[t][i]
                /\ Len(b) = Cardinality(snap[w])
                /\ {jobIdOf(b[i]) : i \in 1..Len(b)} = snap[w]
                /\ \A i \in 1..Len(b) : \A k \in 1..Len(b) :
                      i < k => msgs[b[i]].ts < msgs[b[k]].ts
      ]_vars

\* A cycle posted a combined message of more than one job and is waiting for
\* its run.
C27_Witness ==
    \E w \in Workers :
        LET t == threadOf(job[w])
        IN /\ pc[w] = "p_wait" /\ Cardinality(snap[w]) >= 2
           /\ posted[t] # <<>>
           /\ Len(posted[t][Len(posted[t])]) = Cardinality(snap[w])

\* The job data with the greatest timestamp of the batch.
newest == CHOOSE d \in {jobs[i] : i \in 1..Len(jobs)} :
              \A i \in 1..Len(jobs) : jobs[i].timestamp <= d.timestamp

\* C28: the instructions of a cycle are those of the job with the greatest
\* timestamp, and the default ones exactly when that job has none or empty
\* ones, whatever the older jobs carry; the run is created with them (with
\* none when they are empty).
C28_InstructionsOfNewestJob ==
    /\ bpc \in {"createRun", "created"} =>
          /\ newest.instructions \notin {Undefined, ""}
                => instructions = newest.instructions
          /\ newest.instructions \in {Undefined, ""}
                => instructions = defaultInstructions
    /\ bpc = "created" =>
          runInstructions = IF instructions = "" THEN Undefined ELSE instructions

\* A run was created with the default instructions for a batch whose newest
\* job has none, while an older job of the batch has some.
C28_Witness ==
    /\ bpc = "created" /\ Len(jobs) >= 2
    /\ newest.instructions \in {Undefined, ""}
    /\ \E i \in 1..Len(jobs) : jobs[i].instructions \notin {Undefined, ""}
    /\ runInstructions = defaultInstructions /\ defaultInstructions # ""

\* C29: the high-water mark of a cycle is the greatest timestamp of its batch,
\* which is fixed from the acquisition of the lock on; after the removal the
\* cycle reads the index, and promotes the one job with the smallest timestamp
\* among the ids read whose job is in the queue and whose timestamp is above
\* the mark, or nothing if there is none; no job is promoted otherwise.
C29_PromotesOldestNewerJob ==
    [][/\ \A w \in Workers :
          LET t == threadOf(job[w])
              mark == MaxOf({stampOf(j) : j \in snap[w]})
              newer == {j \in ids[w] : queue[j].st # "none" /\ stampOf(j) > mark}
          IN /\ (pc[w] \in Locked \cup {"p_lock"} /\ pc'[w] \in Locked)
                => snap'[w] = snap[w]
             /\ (pc[w] = "p_newer" /\ pc'[w] # "p_newer")
                => (pc'[w] = "p_nfetch" /\ ids'[w] = index[t] /\ queue' = queue)
             /\ (pc[w] = "p_nfetch" /\ pc'[w] # "p_nfetch")
                => /\ queue' = queue
                   /\ IF newer = {} THEN pc'[w] = "p_get"
                      ELSE /\ pc'[w] = "p_promote"
                           /\ \E j \in newer :
                                 /\ ids'[w] = {j}
                                 /\ \A k \in newer : stampOf(j) <= stampOf(k)
             /\ (pc[w] = "p_promote" /\ pc'[w] # "p_promote")
                => \E j \in ids[w] :
                      /\ ids[w] = {j} /\ stampOf(j) > mark /\ threadOf(j) = t
                      /\ otherJobsUnchanged(j)
                      /\ queue[j].st \in {"delayed", "redelayed"}
                            => (queue'[j].st = "waiting" /\ prom'[t] = j)
                      /\ pc'[w] = "p_get"
       /\ \A th \in Threads :
             (prom'[th] # prom[th] /\ prom'[th] # NoJob)
                => \E w2 \in Workers : pc[w2] = "p_promote" /\ ids[w2] = {prom'[th]}
      ]_vars

\* A cycle promoted the older of two newer jobs of its thread: both are in
\* the index and in the queue, above the mark, and the younger is not promoted.
C29_Witness ==
    \E w \in Workers : \E j \in JobIds : \E k \in JobIds :
        LET t == threadOf(job[w])
        IN /\ pc[w] = "p_get" /\ out[w] = "ok" /\ snap[w] # {}
           /\ prom[t] = j /\ queue[j].st = "waiting"
           /\ threadOf(k) = t /\ k \in index[t] /\ queue[k].st = "delayed"
           /\ stampOf(j) > maxTimestamp(snap[w]) /\ stampOf(k) > stampOf(j)

\* C30: a cycle removes from the queue the jobs of its batch and no other, and
\* then from the index of its thread the ids of its batch and no other, both
\* only after waitForRunCompletion returned; no other step of a cycle removes
\* a job or an id, and ids leave an index in no other way.
C30_RemovesExactlyTheBatch ==
    [][/\ \A w \in Workers :
          LET t == threadOf(job[w])
          IN /\ (pc[w] # "p_remove" /\ pc'[w] = "p_remove")
                => (pc[w] = "p_wait" /\ out[w] = "ok" /\ runs[t] > 0
                      /\ queue' = queue /\ index' = index)
             /\ (pc[w] = "p_remove" /\ pc'[w] = "p_srem")
                => /\ \A j \in JobIds :
                         queue'[j] = IF j \in snap[w] THEN NoJobRec ELSE queue[j]
                   /\ index' = index
             /\ (pc[w] = "p_srem" /\ pc'[w] = "p_newer")
                => /\ index'[t] = index[t] \ snap[w]
                   /\ \A t2 \in Threads \ {t} : index'[t2] = index[t2]
                   /\ queue' = queue
             /\ (pc[w] \in Locked /\ pc'[w] # pc[w]
                   /\ ~(pc[w] = "p_remove" /\ pc'[w] = "p_srem")
                   /\ ~(pc[w] = "p_srem" /\ pc'[w] = "p_newer"))
                => /\ index' = index
                   /\ \A j \in JobIds : queue[j].st # "none" => queue'[j].st # "none"
       /\ \A th \in Threads :
             ~(index[th] \subseteq index'[th])
                => \E w2 \in Workers : pc[w2] = "p_srem" /\ threadOf(job[w2]) = th
      ]_vars

\* A cycle removed its batch from the queue and the index while a later job of
\* the thread is still in both.
C30_Witness ==
    \E w \in Workers : \E k \in JobIds :
        LET t == threadOf(job[w])
        IN /\ pc[w] = "p_newer" /\ snap[w] # {}
           /\ \A j \in snap[w] : queue[j].st = "none" /\ j \notin index[t]
           /\ threadOf(k) = t /\ k \notin snap[w]
           /\ k \in index[t] /\ queue[k].st # "none"

\* C31: a cycle that fails while it posts, starts the run or waits for it goes
\* to its finally block with every job of its batch in the queue and in the
\* index; when it ends its lock is released and the failure reaches the queue,
\* which retries the trigger job while attempts remain.
C31_FailureBeforeRemoval ==
    [][\A w \in Workers :
          LET t == threadOf(job[w])
          IN /\ (pc[w] \in {"p_post", "p_wait"} /\ pc'[w] \notin {"p_post", "p_wait", "p_remove"})
                => /\ pc'[w] = "p_get" /\ out'[w] = "err"
                   /\ queue' = queue /\ index' = index
                   /\ \A j \in snap[w] : exists(j) /\ j \in index[t]
             /\ (pc[w] \in {"p_get", "p_del"} /\ pc'[w] \notin {"p_get", "p_del"} /\ out[w] = "err")
                => /\ pc'[w] = "thr" /\ lock'[t] # w
                   /\ queue' = queue /\ index' = index
             /\ (pc[w] = "thr" /\ pc'[w] # "thr" /\ out[w] = "err")
                => /\ index' = index /\ otherJobsUnchanged(job[w])
                   /\ queue[job[w]].st = "active"
                        => /\ queue'[job[w]].att = queue[job[w]].att + 1
                           /\ queue'[job[w]].st =
                                 IF queue'[job[w]].att < maxAttempts THEN "redelayed" ELSE "failed"
      ]_vars

C33_ResultOfSuccessfulCycle ==
    [][\A w \in Workers :
          LET t == threadOf(job[w])
              r == result'[w]
              returns == pc[w] \in {"p_nfetch", "p_promote"} /\ pc'[w] = "p_get"
                            /\ out'[w] = "ok"
          IN /\ (pc[w] = "p_post" /\ pc'[w] = "p_wait")
                => (runs'[t] = runs[t] + 1 /\ run'[w] = runs'[t])
             /\ (pc[w] \in Locked /\ pc'[w] \in Locked /\ pc[w] # "p_post")
                => run'[w] = run[w]
             /\ returns => r # NoResult
             /\ (r # result[w] /\ r # NoResult)
                => /\ returns /\ result[w] = NoResult
                   /\ r.threadId = t
                   /\ r.runId = run[w] /\ run[w] > 0
                   /\ r.status = "completed"
                   /\ r.messagesProcessed = Cardinality(snap[w])
                   /\ Len(r.processedJobIds) = Cardinality(snap[w])
                   /\ {r.processedJobIds[i] : i \in 1..Len(r.processedJobIds)} = snap[w]
             /\ (out'[w] = "err" \/ pc'[w] = "thr") => r = NoResult
      ]_vars

\* The callback of a trigger returns the result of a cycle of two or more jobs.
C33_Witness ==
    \E w \in Workers :
        /\ pc[w] = "ret" /\ result[w] # NoResult
        /\ result[w].messagesProcessed >= 2
        /\ result[w].runId = runs[result[w].threadId]

\* C34: every call of addMessageToThread creates a job of its own: two
\* submissions never have the same job id, and the job with the id of a
\* submission carries that submission's message for as long as it exists.
C34_OwnJobPerSubmission ==
    \A k \in 1..Len(msgs) :
        /\ \A k2 \in 1..Len(msgs) : k # k2 => jobIdOf(k) # jobIdOf(k2)
        /\ exists(jobIdOf(k)) => queue[jobIdOf(k)].msg = k

\* C35: a message is posted to the external thread at most once: over all the
\* combined messages posted to a thread, no message appears twice.
C35_PostedAtMostOnce ==
    \A t \in Threads :
        LET f == flatten(posted[t])
        IN \A p \in 1..Len(f) : \A q \in 1..Len(f) : f[p] = f[q] => p = q

\* C36: a job that has failed for good does not block its thread: no handler
\* of a later job of the thread returns without processing because the failed
\* job is the oldest of the jobs it fetched.
C36_FailedJobDoesNotBlock ==
    \A w \in Workers :
        (pc[w] = "ret" /\ snap[w] # {} /\ oldest(snap[w]) # job[w])
           => queue[oldest(snap[w])].st # "failed"

\* Nothing is left to do but to accept a new submission: every slot is idle,
\* every submission has returned, and no job is delayed, waiting or active.
quiescent ==
    /\ \A w \in Workers : pc[w] = "idle"
    /\ wait = <<>> /\ pend = {}
    /\ \A j \in JobIds : queue[j].st \notin {"delayed", "redelayed", "waiting", "active"}

\* C37: without any failure or expiry, when the submissions have stopped and
\* the workers have nothing left to do, every message was posted for a run
\* that completed and the index of every thread is empty. Stated for
\* submissions at different milliseconds.
C37_AllProcessedIndexEmpty ==
    (faults = 0 /\ quiescent /\ \A k \in 1..Len(msgs) : msgOfJob(jobIdOf(k)) = k)
       => /\ \A k \in 1..Len(msgs) : Accepted(k) => Posted(k)
          /\ \A t \in Threads : index[t] = {}

\* C38: an instance has at most one worker at any time: at most one Worker
\* created by it is not closed; startWorker called while this.worker is set
\* returns that worker and creates none; and startWorker called after close
\* has cleared this.worker creates a Worker that did not exist before.
C38_AtMostOneWorker ==
    /\ [](Cardinality(alive) <= 1)
    /\ [][ret' # ret \/ made' # made =>
            IF worker # 0
            THEN ret' = worker /\ alive' = alive /\ worker' = worker
            ELSE ret' \notin 1..made /\ worker' = ret' /\ alive' = alive \cup {ret'}]_vars

\* C39: a handleRequiresAction handler passed to createAssistantRouter is
\* configured on the queue the router creates: when a run of that queue is
\* polled as requires_action, the handler is called with the tool calls before
\* the next poll, and waitForRunCompletion does not throw for the status
\* requires_action as it does without a handler.
C39_RouterHandlerConfigured ==
    (via = "router" /\ optHandler /\ polled = "requires_action")
    => /\ handleRequiresAction
       /\ rpc \in {"loop", "sleep", "retrieve"} => given = <<toolCalls>>
       /\ ~(rpc = "thrown" /\ err = "ended")

\* The tool call has no registered handler, or its handler throws.
failing(tc) == tc.name \notin Registered \/ tc.name = "broken"

\* C40: the handler built by createFunctionCallHandler calls submitToolOutputs
\* at most once, and when it has ended for a submit_tool_outputs event it has
\* called it once with exactly one output per tool call of the event, each with
\* the tool_call_id of its call; the output of a call whose function has no
\* registered handler or whose handler throws is an error output, and the
\* other calls (with arguments that parse) have the result of their handler.
C40_OneOutputPerToolCall ==
    LET calls == requiredAction.tool_calls
    IN /\ Len(fsubmits) <= 1
       /\ (fpc \in {"done", "thrown"} /\ requiredAction.type = "submit_tool_outputs")
          => /\ Len(fsubmits) = 1
             /\ Len(fsubmits[1]) = Len(calls)
             /\ \A i \in 1..Len(calls) :
                  /\ Cardinality({k \in 1..Len(fsubmits[1]) :
                                    fsubmits[1][k].tool_call_id = calls[i].id}) = 1
                  /\ fsubmits[1][i].tool_call_id = calls[i].id
                  /\ failing(calls[i]) => fsubmits[1][i].output[1] = "error"
                  /\ (~failing(calls[i]) /\ calls[i].arguments = "json")
                        => fsubmits[1][i].output = <<"result", calls[i].name>>

\* Two tool calls, the first without a registered handler, the second with a
\* handler that returns: both outputs were submitted in one call.
C40_Witness ==
    /\ fpc = "done" /\ Len(fsubmits) = 1
    /\ Len(requiredAction.tool_calls) = 2
    /\ requiredAction.tool_calls[1].name = "unknown"
    /\ requiredAction.tool_calls[2].name = "get_user_info"
    /\ requiredAction.tool_calls[2].arguments = "json"
    /\ fsubmits[1][1].output[1] = "error"
    /\ fsubmits[1][2].output = <<"result", "get_user_info">>
====
